---- MODULE Spec2Model ----
(***************************************************************************)
(* One verification round of fractal/verifier/challenge.py:                *)
(* challenge_data fans one challenge out to the sampled provers with one   *)
(* asyncio task per uid (handle_challenge), joins them with asyncio.gather *)
(* and then scores the responses into an EventSchema.                      *)
(*                                                                         *)
(* Floats are integers on a fine grid (python floats); a torch.float32     *)
(* cell keeps only the multiples of F32Step (ToFloat32).                   *)
(***************************************************************************)
EXTENDS Integers, Sequences, FiniteSets, TLC

\* ---------------------------------------------------------------- bounds
\* size of the metagraph (uids 0 .. NumUids-1)
NumUids == 2
\* largest config.neuron.sample_size
MaxSample == 2
\* longest completion string a prover or the oracle returns
MaxLen == 2
\* spacing of the float32 grid, in units of the python-float grid
F32Step == 4
\* largest magnitude of config.neuron.challenge_size
MaxChallenge == 2
\* blocks the chain may advance while a round runs
MaxBlock == 2

\* ------------------------------------------------------------- constants
\* python's None, True and False (one sort, so that "verified != None" is a test)
None == "None"

True == "True"

False == "False"

Uids == 0 .. (NumUids - 1)

\* completions are sequences of characters; digests only see their sum
Alphabet == {1}

Strings == UNION {[1 .. n -> Alphabet] : n \in 0 .. MaxLen}

\* values get_tier_factor may return (python floats)
TierFactors == {18, 20}

\* fractal.constants.CHALLENGE_FAILURE_REWARD
CHALLENGE_FAILURE_REWARD == 0

\* self.metagraph.hotkeys[uid]
hotkeys(uid) == <<"hotkey", uid>>

\* an unset config value (python None where the other values are integers);
\* a set value n is <<n>>
Unset == <<>>

\* values of config.neuron.challenge_size
ChallengeSizes == {Unset} \cup {<<n>> : n \in (0 - MaxChallenge) .. MaxChallenge}

\* states of the process-wide random source: draw number i of a round made
\* in state e is e * i (random.choice and random.randint reduce it)
Entropies == {0, 1, 7}

\* string.ascii_letters
ascii_letters ==
    <<"a", "b", "c", "d", "e", "f", "g", "h", "i", "j", "k", "l", "m",
      "n", "o", "p", "q", "r", "s", "t", "u", "v", "w", "x", "y", "z",
      "A", "B", "C", "D", "E", "F", "G", "H", "I", "J", "K", "L", "M",
      "N", "O", "P", "Q", "R", "S", "T", "U", "V", "W", "X", "Y", "Z">>

\* upper end of random.randint(1, 2**32 - 1); integers here end at 2**31 - 1
SeedMax == 2147483647

\* string.digits
digits == <<"0", "1", "2", "3", "4", "5", "6", "7", "8", "9">>

\* ------------------------------------------------------- pure functions
\* random.choice(pool), draw number i in state e of the random source
random_choice(pool, e, i) == pool[((e * i) % Len(pool)) + 1]

\* random.randint(a, b), draw number i in state e of the random source
random_randint(a, b, e, i) == a + ((e * i) % (b - a + 1))

\* generate_challenge(self): "challenge_size or 100" characters of the pool
generate_challenge(size, e) ==
    LET length == IF size = Unset \/ size[1] = 0 THEN 100 ELSE size[1]
        char_pool == ascii_letters \o digits
    IN  [i \in 1 .. length |-> random_choice(char_pool, e, i)]

RECURSIVE SumSeq(_)
SumSeq(s) == IF s = <<>> THEN 0 ELSE Head(s) + SumSeq(Tail(s))

\* fractal.verifier.reward.hashing_function: deterministic, not injective
hashing_function(s) == IF SumSeq(s) % 2 = 0 THEN "digest0" ELSE "digest1"

\* verify with the comparison inverted
verify_Inverted(output, ground_truth_hash) ==
    LET output_hash == hashing_function(output)
    IN  IF output_hash = ground_truth_hash THEN False ELSE True

\* verify(output, ground_truth_hash)
verify(output, ground_truth_hash) ==
    LET output_hash == hashing_function(output)
    IN  IF ~(output_hash = ground_truth_hash) THEN False ELSE True

\* a python float stored into a torch.float32 tensor cell and read back with
\* .item(): round to nearest representable value, ties to even
ToFloat32(x) ==
    LET q == x \div F32Step
        r == x % F32Step
    IN  IF 2 * r < F32Step THEN q * F32Step
        ELSE IF 2 * r > F32Step THEN (q + 1) * F32Step
        ELSE IF q % 2 = 0 THEN q * F32Step ELSE (q + 1) * F32Step

\* get_random_uids(self, k): k distinct uids (all of them when k is larger)
get_random_uids(k) ==
    LET n == IF k < NumUids THEN k ELSE NumUids
    IN  {s \in [1 .. n -> Uids] : \A a, b \in 1 .. n : a # b => s[a] # s[b]}

\* _filter_verified_responses(uids, responses): <<uids, responses>>
RECURSIVE FilterPairs(_, _)
FilterPairs(us, rs) ==
    IF us = <<>> \/ rs = <<>> THEN <<>>
    ELSE (IF rs[1].verified # None
          THEN <<<<us[1], rs[1].response>>>> ELSE <<>>)
         \o FilterPairs(Tail(us), Tail(rs))

_filter_verified_responses(us, rs) ==
    LET not_none_responses == FilterPairs(us, rs)
    IN  IF Len(not_none_responses) = 0 THEN <<<<>>, <<>>>>
        ELSE << [k \in 1 .. Len(not_none_responses) |-> not_none_responses[k][1]],
                [k \in 1 .. Len(not_none_responses) |-> not_none_responses[k][2]] >>

\* remove_indices_from_tensor(tensor, indices_to_remove), 0-based indices
remove_indices_from_tensor(tensor, indices_to_remove) ==
    LET keep == {k \in 1 .. Len(tensor) : (k - 1) \notin indices_to_remove}
        RECURSIVE Pick(_)
        Pick(k) == IF k > Len(tensor) THEN <<>>
                   ELSE (IF k \in keep THEN <<tensor[k]>> ELSE <<>>) \o Pick(k + 1)
    IN  Pick(1)

\* the last index holding the largest value (max over a ">=" scan)
BestIndex_LastMax(rewards) ==
    CHOOSE b \in 1 .. Len(rewards) :
        /\ \A k \in 1 .. Len(rewards) : rewards[k] <= rewards[b]
        /\ \A k \in (b + 1) .. Len(rewards) : rewards[k] < rewards[b]

\* max(range(len(rewards)), key=rewards.__getitem__): first index (1-based)
\* holding the largest value
BestIndex(rewards) ==
    CHOOSE b \in 1 .. Len(rewards) :
        /\ \A k \in 1 .. Len(rewards) : rewards[k] <= rewards[b]
        /\ \A k \in 1 .. (b - 1) : rewards[k] < rewards[b]

\* results collected as they complete (asyncio.as_completed)
gather_ByArrival(results, order) == [k \in 1 .. Len(order) |-> results[order[k]]]

\* asyncio.gather(*tasks): results in the order of the tasks passed
gather(results, order) == results

\* ----------------------------------------------------------------- state
VARIABLES
    mock,          \* self.config.mock
    sample_size,   \* self.config.neuron.sample_size
    pc,            \* position of challenge_data
    event,         \* the EventSchema under construction
    ground_truth_hash,
    uids,          \* local uids of challenge_data
    task_pc,       \* position of each handle_challenge task
    task_result,   \* value returned by each finished task
    arrival,       \* task indices in the order they finished
    responses,     \* result of asyncio.gather
    rewards,       \* torch.float32 tensor
    tier_factors,  \* tier_factor read in each loop iteration
    stats,         \* calls made to update_statistics
    applied,       \* arguments of the apply_reward_scores call
    challenge_size,\* self.config.neuron.challenge_size
    entropy,       \* state of the random module when the round starts
    chain_block,   \* the chain's current block
    prompt,        \* local prompt of challenge_data
    seed,          \* local seed of challenge_data
    requests       \* per task, the requests handed to the dendrite

vars == <<mock, sample_size, pc, event, ground_truth_hash, uids, task_pc,
          task_result, arrival, responses, rewards, tier_factors, stats, applied,
          challenge_size, entropy, chain_block, prompt, seed, requests>>

\* lines 139-153: the EventSchema as built; best_hotkey "" is the empty
\* sequence, hotkeys being sequences
NoEvent == [uids |-> <<>>, successful |-> <<>>, completion_times |-> <<>>,
            task_status_messages |-> <<>>, task_status_codes |-> <<>>,
            rewards |-> <<>>, best_uid |-> -1, best_hotkey |-> <<>>,
            block |-> chain_block]

\* challenge_data has not started
InitRound ==
    /\ pc = "start"
    /\ chain_block = 1
    /\ prompt = <<>>
    /\ seed = 0
    /\ requests = <<>>
    /\ event = None
    /\ ground_truth_hash = None
    /\ uids = <<>>
    /\ task_pc = <<>>
    /\ task_result = <<>>
    /\ arrival = <<>>
    /\ responses = <<>>
    /\ rewards = <<>>
    /\ tier_factors = <<>>
    /\ stats = <<>>
    /\ applied = None

\* a round under one challenge_size and one state of the random source
Init ==
    /\ InitRound
    /\ mock \in BOOLEAN
    /\ sample_size \in 0 .. MaxSample
    /\ challenge_size = <<MaxChallenge>>
    /\ entropy = 7

\* a round under every challenge_size and state of the random source
InitConfig ==
    /\ InitRound
    /\ mock \in BOOLEAN
    /\ sample_size \in 0 .. MaxSample
    /\ challenge_size \in ChallengeSizes
    /\ entropy \in Entropies

\* lines 139-162: build the empty event, the prompt and the seed
CreateEvent ==
    /\ pc = "start"
    /\ event' = NoEvent
    /\ prompt' = generate_challenge(challenge_size, entropy)
    /\ seed' = random_randint(1, SeedMax, entropy, Len(prompt') + 1)
    /\ pc' = "oracle"
    /\ UNCHANGED <<challenge_size, entropy, chain_block, requests,
                   mock, sample_size, ground_truth_hash, uids, task_pc, task_result,
                   arrival, responses, rewards, tier_factors, stats, applied>>

\* lines 165-169: the oracle answers and the digest is taken
GroundTruth ==
    /\ pc = "oracle"
    /\ \E ground_truth_output \in Strings :
           ground_truth_hash' = hashing_function(ground_truth_output)
    /\ pc' = "dispatch"
    /\ UNCHANGED <<challenge_size, entropy, chain_block, prompt, seed, requests,
                   mock, sample_size, event, uids, task_pc, task_result, arrival,
                   responses, rewards, tier_factors, stats, applied>>

\* the oracle failure swallowed: the round goes on without a digest
OracleFails_Swallowed ==
    /\ pc = "oracle"
    /\ pc' = "dispatch"
    /\ UNCHANGED <<challenge_size, entropy, chain_block, prompt, seed, requests,
                   mock, sample_size, event, ground_truth_hash, uids, task_pc,
                   task_result, arrival, responses, rewards, tier_factors, stats,
                   applied>>

\* line 165: self.client.generate raises; challenge_data has no handler
OracleFails ==
    /\ pc = "oracle"
    /\ pc' = "aborted"
    /\ UNCHANGED <<challenge_size, entropy, chain_block, prompt, seed, requests,
                   mock, sample_size, event, ground_truth_hash, uids, task_pc,
                   task_result, arrival, responses, rewards, tier_factors, stats,
                   applied>>

\* lines 172-180: sample the uids, create one task per uid; line 181 awaits
Dispatch ==
    /\ pc = "dispatch"
    /\ \E s \in get_random_uids(sample_size) :
           /\ uids' = s
           /\ task_pc' = [k \in 1 .. Len(s) |-> "created"]
           /\ task_result' = [k \in 1 .. Len(s) |-> None]
           /\ requests' = [k \in 1 .. Len(s) |-> <<>>]
    /\ pc' = "gather"
    /\ UNCHANGED <<challenge_size, entropy, chain_block, prompt, seed,
                   mock, sample_size, event, ground_truth_hash, arrival, responses,
                   rewards, tier_factors, stats, applied>>

\* the tasks keep running after challenge_data has raised out of gather
TasksRun == pc \in {"gather", "aborted"}

\* a sampling seed derived per prover
PromptRequest_SeedPerUid(uid) ==
    [axon |-> uid, query |-> prompt, sampling_params |-> [seed |-> seed + uid]]

\* lines 160-162 and 79-82: the synapse sent to a prover; every task is
\* passed the one sampling_params object built from the round's seed
PromptRequest(uid) ==
    [axon |-> uid, query |-> prompt, sampling_params |-> [seed |-> seed]]

\* handle_challenge lines 73-89: the request is handed to the dendrite
TaskSend(k) ==
    /\ TasksRun
    /\ ~mock
    /\ k \in 1 .. Len(task_pc)
    /\ task_pc[k] = "created"
    /\ task_pc' = [task_pc EXCEPT ![k] = "waiting"]
    /\ requests' = [requests EXCEPT ![k] = Append(@, PromptRequest(uids[k]))]
    /\ UNCHANGED <<challenge_size, entropy, chain_block, prompt, seed,
                   mock, sample_size, pc, event, ground_truth_hash, uids,
                   task_result, arrival, responses, rewards, tier_factors, stats,
                   applied>>

Finished(k, result) ==
    /\ task_pc' = [task_pc EXCEPT ![k] = "done"]
    /\ task_result' = [task_result EXCEPT ![k] = result]
    /\ arrival' = Append(arrival, k)

\* handle_challenge lines 84-99: a response with a completion arrives
TaskAnswer(k) ==
    /\ TasksRun
    /\ k \in 1 .. Len(task_pc)
    /\ task_pc[k] = "waiting"
    /\ \E output \in Strings :
           Finished(k, [verified |-> verify(output, ground_truth_hash),
                        response |-> [completion |-> output,
                                      process_time |-> Len(arrival) + 1,
                                      status_code |-> 200,
                                      status_message |-> "Success"],
                        uid |-> uids[k]])
    /\ UNCHANGED <<challenge_size, entropy, chain_block, prompt, seed, requests,
                   mock, sample_size, pc, event, ground_truth_hash, uids,
                   responses, rewards, tier_factors, stats, applied>>

\* the timed-out prover queried again within the round
TaskTimeout_Retry(k) ==
    /\ TasksRun
    /\ k \in 1 .. Len(task_pc)
    /\ task_pc[k] = "waiting"
    /\ task_pc' = [task_pc EXCEPT ![k] = "created"]
    /\ UNCHANGED <<challenge_size, entropy, chain_block, prompt, seed, requests,
                   mock, sample_size, pc, event, ground_truth_hash, uids,
                   task_result, arrival, responses, rewards, tier_factors, stats,
                   applied>>

\* handle_challenge lines 84-99: the timeout elapses, the dendrite hands back
\* the synapse without a completion and its digest matches nothing
TaskTimeout(k) ==
    /\ TasksRun
    /\ k \in 1 .. Len(task_pc)
    /\ task_pc[k] = "waiting"
    /\ Finished(k, [verified |-> False,
                    response |-> [completion |-> None,
                                  process_time |-> Len(arrival) + 1,
                                  status_code |-> 408,
                                  status_message |-> "Timeout"],
                    uid |-> uids[k]])
    /\ UNCHANGED <<challenge_size, entropy, chain_block, prompt, seed, requests,
                   mock, sample_size, pc, event, ground_truth_hash, uids,
                   responses, rewards, tier_factors, stats, applied>>

\* handle_challenge lines 84-93: the transport (or hashing the missing
\* completion) raises; handle_challenge has no handler
TaskRaise(k) ==
    /\ TasksRun
    /\ k \in 1 .. Len(task_pc)
    /\ task_pc[k] = "waiting"
    /\ task_pc' = [task_pc EXCEPT ![k] = "raised"]
    /\ UNCHANGED <<challenge_size, entropy, chain_block, prompt, seed, requests,
                   mock, sample_size, pc, event, ground_truth_hash, uids,
                   task_result, arrival, responses, rewards, tier_factors, stats,
                   applied>>

\* handle_challenge lines 101-113: mock branch; verify(self, response,
\* ground_truth_hash) passes three arguments to a function of two: TypeError
TaskMock(k) ==
    /\ TasksRun
    /\ mock
    /\ k \in 1 .. Len(task_pc)
    /\ task_pc[k] = "created"
    /\ task_pc' = [task_pc EXCEPT ![k] = "raised"]
    /\ UNCHANGED <<challenge_size, entropy, chain_block, prompt, seed, requests,
                   mock, sample_size, pc, event, ground_truth_hash, uids,
                   task_result, arrival, responses, rewards, tier_factors, stats,
                   applied>>

\* the join returning at the first finished task (asyncio.wait FIRST_COMPLETED)
GatherReturn_FirstCompleted ==
    /\ pc = "gather"
    /\ \E k \in 1 .. Len(task_pc) : task_pc[k] = "done"
    /\ responses' = gather(task_result, arrival)
    /\ rewards' = [k \in 1 .. Len(task_result) |-> ToFloat32(0)]
    /\ pc' = "score"
    /\ UNCHANGED <<challenge_size, entropy, chain_block, prompt, seed, requests,
                   mock, sample_size, event, ground_truth_hash, uids, task_pc,
                   task_result, arrival, tier_factors, stats, applied>>

\* line 181: every task has returned; lines 184-188 allocate the tensor
GatherReturn ==
    /\ pc = "gather"
    /\ \A k \in 1 .. Len(task_pc) : task_pc[k] = "done"
    /\ responses' = gather(task_result, arrival)
    /\ rewards' = [k \in 1 .. Len(task_result) |-> ToFloat32(0)]
    /\ pc' = "score"
    /\ UNCHANGED <<challenge_size, entropy, chain_block, prompt, seed, requests,
                   mock, sample_size, event, ground_truth_hash, uids, task_pc,
                   task_result, arrival, tier_factors, stats, applied>>

\* line 181: gather re-raises the first exception of a task
GatherRaise ==
    /\ pc = "gather"
    /\ \E k \in 1 .. Len(task_pc) : task_pc[k] = "raised"
    /\ pc' = "aborted"
    /\ UNCHANGED <<challenge_size, entropy, chain_block, prompt, seed, requests,
                   mock, sample_size, event, ground_truth_hash, uids, task_pc,
                   task_result, arrival, responses, rewards, tier_factors, stats,
                   applied>>

\* the reward appended only for a verified response
AppendEntry_RewardIfVerified(ev, uid, verified, response, reward) ==
    [ev EXCEPT
        !.uids = Append(@, uid),
        !.successful = Append(@, verified),
        !.completion_times = Append(@, IF mock THEN 0 ELSE response.process_time),
        !.task_status_messages =
            Append(@, IF mock THEN "mock" ELSE response.status_message),
        !.task_status_codes = Append(@, IF mock THEN 0 ELSE response.status_code),
        !.rewards = IF verified = True THEN Append(@, reward) ELSE @]

\* lines 209-222: the six appends of one loop iteration
AppendEntry(ev, uid, verified, response, reward) ==
    [ev EXCEPT
        !.uids = Append(@, uid),
        !.successful = Append(@, verified),
        !.completion_times = Append(@, IF mock THEN 0 ELSE response.process_time),
        !.task_status_messages =
            Append(@, IF mock THEN "mock" ELSE response.status_message),
        !.task_status_codes = Append(@, IF mock THEN 0 ELSE response.status_code),
        !.rewards = Append(@, reward)]

\* the tier reward granted whatever the verification says
Reward_IgnoresVerified(verified, tier_factor) == 1 * tier_factor

\* line 207: the reward of one response
Reward(verified, tier_factor) ==
    IF verified = True THEN 1 * tier_factor ELSE CHALLENGE_FAILURE_REWARD

\* statistics recorded for verified responses only
update_statistics_OnlySuccess(calls, hotkey, verified, block) ==
    IF verified = True
    THEN Append(calls, [ss58_address |-> hotkey,
                        success |-> verified,
                        task_type |-> "challenge",
                        current_block |-> block])
    ELSE calls

\* lines 197-203: the update_statistics call; self.block reads the chain
update_statistics(calls, hotkey, verified, block) ==
    Append(calls, [ss58_address |-> hotkey,
                   success |-> verified,
                   task_type |-> "challenge",
                   current_block |-> block])

\* lines 189-222: one iteration of the scoring loop
ScoreStep ==
    /\ pc = "score"
    /\ Len(event.uids) < Len(responses)
    /\ LET i == Len(event.uids) + 1
           r == responses[i]
           hotkey == hotkeys(r.uid)
       IN  /\ stats' = update_statistics(stats, hotkey, r.verified, chain_block)
           /\ \E tier_factor \in TierFactors :
                  /\ tier_factors' = Append(tier_factors, tier_factor)
                  /\ rewards' = [rewards EXCEPT
                                   ![i] = ToFloat32(Reward(r.verified, tier_factor))]
                  /\ event' = AppendEntry(event, r.uid, r.verified, r.response,
                                          rewards'[i])
    /\ UNCHANGED <<challenge_size, entropy, chain_block, prompt, seed, requests,
                   mock, sample_size, pc, ground_truth_hash, uids, task_pc,
                   task_result, arrival, responses, applied>>

\* the report finished while responses are still unscored
Finish_BeforeScored ==
    /\ pc = "score"
    /\ IF Len(responses) = 0
       THEN UNCHANGED <<uids, responses, rewards, applied, event>>
       ELSE LET f == _filter_verified_responses(uids, responses)
                kept == remove_indices_from_tensor(rewards, {})
            IN  /\ uids' = f[1]
                /\ responses' = f[2]
                /\ rewards' = kept
                /\ applied' = [uids |-> f[1], responses |-> f[2], rewards |-> kept]
                /\ event' = IF event.rewards # <<>>
                            THEN LET best_index == BestIndex(event.rewards)
                                 IN  [event EXCEPT
                                        !.best_uid = event.uids[best_index],
                                        !.best_hotkey =
                                            hotkeys(event.uids[best_index])]
                            ELSE event
    /\ pc' = "returned"
    /\ UNCHANGED <<challenge_size, entropy, chain_block, prompt, seed, requests,
                   mock, sample_size, ground_truth_hash, task_pc, task_result,
                   arrival, tier_factors, stats>>

\* best_uid set without its hotkey
Finish_NoHotkey ==
    /\ pc = "score"
    /\ Len(event.uids) = Len(responses)
    /\ IF Len(responses) = 0
       THEN UNCHANGED <<uids, responses, rewards, applied, event>>
       ELSE LET f == _filter_verified_responses(uids, responses)
                kept == remove_indices_from_tensor(rewards, {})
            IN  /\ uids' = f[1]
                /\ responses' = f[2]
                /\ rewards' = kept
                /\ applied' = [uids |-> f[1], responses |-> f[2], rewards |-> kept]
                /\ event' = IF event.rewards # <<>>
                            THEN LET best_index == BestIndex(event.rewards)
                                 IN  [event EXCEPT
                                        !.best_uid = event.uids[best_index]]
                            ELSE event
    /\ pc' = "returned"
    /\ UNCHANGED <<challenge_size, entropy, chain_block, prompt, seed, requests,
                   mock, sample_size, ground_truth_hash, task_pc, task_result,
                   arrival, tier_factors, stats>>

\* lines 224-259: early return, filter, apply_reward_scores, best uid
Finish ==
    /\ pc = "score"
    /\ Len(event.uids) = Len(responses)
    /\ IF Len(responses) = 0
       THEN UNCHANGED <<uids, responses, rewards, applied, event>>
       ELSE LET f == _filter_verified_responses(uids, responses)
                kept == remove_indices_from_tensor(rewards, {})
            IN  /\ uids' = f[1]
                /\ responses' = f[2]
                /\ rewards' = kept
                /\ applied' = [uids |-> f[1], responses |-> f[2], rewards |-> kept]
                /\ event' = IF event.rewards # <<>>
                            THEN LET best_index == BestIndex(event.rewards)
                                 IN  [event EXCEPT
                                        !.best_uid = event.uids[best_index],
                                        !.best_hotkey =
                                            hotkeys(event.uids[best_index])]
                            ELSE event
    /\ pc' = "returned"
    /\ UNCHANGED <<challenge_size, entropy, chain_block, prompt, seed, requests,
                   mock, sample_size, ground_truth_hash, task_pc, task_result,
                   arrival, tier_factors, stats>>

Next ==
    \/ CreateEvent
    \/ GroundTruth
    \/ OracleFails
    \/ Dispatch
    \/ \E k \in 1 .. MaxSample : TaskSend(k)
    \/ \E k \in 1 .. MaxSample : TaskAnswer(k)
    \/ \E k \in 1 .. MaxSample : TaskTimeout(k)
    \/ \E k \in 1 .. MaxSample : TaskRaise(k)
    \/ \E k \in 1 .. MaxSample : TaskMock(k)
    \/ GatherReturn
    \/ GatherRaise
    \/ ScoreStep
    \/ Finish

Spec == Init /\ [][Next]_vars

\* the same round under every configuration
SpecConfig == InitConfig /\ [][Next]_vars

\* the chain produces a block
BlockAdvance ==
    /\ chain_block < MaxBlock
    /\ chain_block' = chain_block + 1
    /\ UNCHANGED <<mock, sample_size, pc, event, ground_truth_hash, uids, task_pc,
                   task_result, arrival, responses, rewards, tier_factors, stats,
                   applied, challenge_size, entropy, prompt, seed, requests>>

NextBlock ==
    \/ Next
    \/ BlockAdvance

\* the same round while the chain advances
SpecBlock == Init /\ [][NextBlock]_vars

\* ------------------------------------------------------------- properties
Returned == pc = "returned"

Tasks == 1 .. Len(task_pc)

Settled(k) == task_pc[k] \in {"done", "raised"}

\* the spec's NoResponse: the transport raised, or the timeout elapsed and
\* the response carries no completion
NoResponse(k) ==
    \/ task_pc[k] = "raised"
    \/ task_pc[k] = "done" /\ task_result[k].response.status_code = 408

Elems(s) == {s[k] : k \in 1 .. Len(s)}

\* C1: in a returned report the six per-worker arrays have one length, and
\* entry i of each of them is the uid, flag, time, status and reward of the
\* same prover
C1_ArraysAligned ==
    Returned =>
        LET n == Len(event.uids)
        IN  /\ Len(event.successful) = n
            /\ Len(event.completion_times) = n
            /\ Len(event.task_status_messages) = n
            /\ Len(event.task_status_codes) = n
            /\ Len(event.rewards) = n
            /\ \A i \in 1 .. n :
                   \E k \in Tasks :
                       /\ task_pc[k] = "done"
                       /\ task_result[k].uid = event.uids[i]
                       /\ task_result[k].verified = event.successful[i]
                       /\ task_result[k].response.process_time
                              = event.completion_times[i]
                       /\ task_result[k].response.status_message
                              = event.task_status_messages[i]
                       /\ task_result[k].response.status_code
                              = event.task_status_codes[i]
                       /\ event.rewards[i] =
                              (IF event.successful[i] = True
                               THEN ToFloat32(tier_factors[i])
                               ELSE ToFloat32(CHALLENGE_FAILURE_REWARD))

C1_Witness ==
    /\ Returned
    /\ Len(event.uids) = 2
    /\ event.successful = <<True, False>>
    /\ event.task_status_codes = <<200, 408>>
    /\ arrival = <<2, 1>>

\* C2: a prover that timed out (or whose transport failed) is in none of the
\* arrays of the returned report and no update_statistics call names it
C2_NoResponseExcluded ==
    Returned =>
        \A k \in Tasks :
            NoResponse(k) =>
                /\ task_result[k].uid \notin Elems(event.uids)
                /\ \A c \in 1 .. Len(stats) :
                       stats[c].ss58_address # hotkeys(task_result[k].uid)

\* C3: with the ground truth computed and the real transport in use, a failed
\* request is classified NoResponse (verified is None) and the round does not
\* abort
C3_FailureContained ==
    (~mock /\ ground_truth_hash # None) =>
        /\ pc # "aborted"
        /\ \A k \in Tasks :
               (task_pc[k] = "done" /\ task_result[k].response.status_code = 408)
                   => task_result[k].verified = None

\* C4: once the round is over with an empty sample or with every dispatched
\* prover NoResponse, it has returned (not raised) a report with best_uid -1
\* and empty arrays
C4_EmptyReport ==
    (/\ ~mock
     /\ ground_truth_hash # None
     /\ pc \in {"returned", "aborted"}
     /\ \A k \in Tasks : Settled(k) /\ NoResponse(k)) =>
        /\ Returned
        /\ event.best_uid = -1
        /\ event.uids = <<>>
        /\ event.successful = <<>>
        /\ event.completion_times = <<>>
        /\ event.task_status_messages = <<>>
        /\ event.task_status_codes = <<>>
        /\ event.rewards = <<>>

\* C5: with rewards in the report, best_uid is the uid at the first position
\* that holds the largest reward
C5_BestIsFirstMax ==
    (Returned /\ event.rewards # <<>>) =>
        \E b \in 1 .. Len(event.rewards) :
            /\ event.best_uid = event.uids[b]
            /\ \A k \in 1 .. Len(event.rewards) : event.rewards[k] <= event.rewards[b]
            /\ \A k \in 1 .. (b - 1) : event.rewards[k] < event.rewards[b]

C5_Witness ==
    /\ Returned
    /\ Len(event.rewards) = 2
    /\ event.rewards[1] = event.rewards[2]
    /\ event.successful = <<True, True>>
    /\ event.best_uid = event.uids[1]

\* C6: the report lists the provers by their position in the sample, whatever
\* the order in which their tasks finished: entry k is the answer of task k
C6_SampleOrder ==
    Returned =>
        /\ Len(event.uids) = Len(task_result)
        /\ \A k \in 1 .. Len(event.uids) :
               /\ event.uids[k] = task_result[k].uid
               /\ event.uids[k] = uids[k]
               /\ event.successful[k] = task_result[k].verified
               /\ event.completion_times[k] = task_result[k].response.process_time
        /\ \A a, b \in 1 .. Len(event.uids) : a # b => event.uids[a] # event.uids[b]

C6_Witness ==
    /\ Returned
    /\ arrival = <<2, 1>>
    /\ Len(event.uids) = 2
    /\ event.completion_times = <<2, 1>>

\* C7: every task of the sample exists before any of them runs, and nothing
\* is aggregated (no statistics call, tier lookup, reward or report entry)
\* while a task is unsettled
C7_JoinBarrier ==
    /\ (\E k \in Tasks : task_pc[k] # "created") =>
           Len(task_pc) = (IF sample_size < NumUids THEN sample_size ELSE NumUids)
    /\ (\/ pc \in {"score", "returned"}
        \/ stats # <<>>
        \/ tier_factors # <<>>
        \/ responses # <<>>
        \/ (pc # "start" /\ event.uids # <<>>)) =>
           \A k \in Tasks : task_pc[k] = "done"

C7_Witness ==
    /\ pc = "score"
    /\ Len(task_pc) = 2
    /\ Len(stats) = 1
    /\ arrival = <<2, 1>>

\* C8: verify is true on a string and its own digest, false on digests that
\* differ, and each task's verified flag is exactly the comparison of the
\* digest of its completion with the ground-truth digest
C8_VerifyIffDigestEqual ==
    /\ \A s \in Strings : verify(s, hashing_function(s)) = True
    /\ \A s1, s2 \in Strings :
           hashing_function(s1) # hashing_function(s2)
               => verify(s1, hashing_function(s2)) = False
    /\ \A k \in Tasks :
           (task_pc[k] = "done" /\ task_result[k].response.status_code = 200) =>
               task_result[k].verified =
                   (IF hashing_function(task_result[k].response.completion)
                          = ground_truth_hash
                    THEN True ELSE False)

C8_Witness ==
    /\ Len(task_pc) = 2
    /\ task_pc = <<"done", "done">>
    /\ task_result[1].verified = True
    /\ task_result[2].verified = False
    /\ task_result[1].response.status_code = 200
    /\ task_result[2].response.status_code = 200

\* C9 as stated: every reported reward is exactly 1.0 * tier_factor for a
\* verified prover and exactly CHALLENGE_FAILURE_REWARD otherwise
C9_RewardExact ==
    pc # "start" =>
        \A i \in 1 .. Len(event.rewards) :
            event.rewards[i] =
                (IF event.successful[i] = True
                 THEN 1 * tier_factors[i] ELSE CHALLENGE_FAILURE_REWARD)

\* C9 amended: every reported reward is the float32 value of 1.0 * tier_factor
\* for a verified prover and the float32 value of CHALLENGE_FAILURE_REWARD
\* otherwise
C9_RewardFloat32 ==
    pc # "start" =>
        \A i \in 1 .. Len(event.rewards) :
            event.rewards[i] =
                (IF event.successful[i] = True
                 THEN ToFloat32(1 * tier_factors[i])
                 ELSE ToFloat32(CHALLENGE_FAILURE_REWARD))

C9_Witness ==
    /\ Returned
    /\ Len(event.rewards) = 2
    /\ event.successful = <<True, False>>
    /\ tier_factors[1] # ToFloat32(tier_factors[1])

\* C10: while no ground-truth digest exists, and so after the oracle call
\* failed, no task exists, no request was sent, no statistics call and no
\* reward application was made, and no report is returned
C10_OracleFailureAbandons ==
    ground_truth_hash = None =>
        /\ pc \in {"start", "oracle", "aborted"}
        /\ task_pc = <<>>
        /\ uids = <<>>
        /\ stats = <<>>
        /\ tier_factors = <<>>
        /\ applied = None

C10_Witness ==
    /\ pc = "aborted"
    /\ ground_truth_hash = None
    /\ event = NoEvent

\* C11 as stated: no two provers of a round are sent the same seed
C11_DistinctSeeds ==
    \A a, b \in 1 .. Len(requests) :
        a # b =>
            \A x \in 1 .. Len(requests[a]) :
                \A y \in 1 .. Len(requests[b]) :
                    requests[a][x].sampling_params.seed
                        # requests[b][y].sampling_params.seed

\* C11 amended: every request of a round carries the round's one seed, drawn
\* once from 1 .. 2**32 - 1, together with the round's prompt
C11_RoundSeed ==
    \A k \in 1 .. Len(requests) :
        \A x \in 1 .. Len(requests[k]) :
            /\ requests[k][x].sampling_params.seed = seed
            /\ requests[k][x].query = prompt
            /\ task_pc[k] = "done" => requests[k][x].axon = task_result[k].uid
            /\ seed \in 1 .. SeedMax

C11_Witness ==
    /\ Returned
    /\ Len(requests) = 2
    /\ Len(requests[1]) = 1
    /\ Len(requests[2]) = 1
    /\ requests[1][1].axon # requests[2][1].axon
    /\ requests[1][1].sampling_params.seed = requests[2][1].sampling_params.seed

\* C12: a mock round whose oracle answered runs to its report as the real
\* round does: no task raises and challenge_data does not abort
C12_MockCompletes ==
    (mock /\ ground_truth_hash # None) =>
        /\ pc # "aborted"
        /\ \A k \in Tasks : task_pc[k] # "raised"

\* the tasks that are not NoResponse, in dispatch order
RECURSIVE Answered(_)
Answered(k) ==
    IF k > Len(task_pc) THEN <<>>
    ELSE (IF NoResponse(k) THEN <<>> ELSE <<k>>) \o Answered(k + 1)

\* C13: apply_reward_scores is handed a uid list and a reward vector of one
\* length, with one entry per prover that is not NoResponse, in dispatch
\* order, reward i being the reward of uid i
C13_AppliedAligned ==
    (Returned /\ Len(task_pc) > 0) =>
        LET a == Answered(1)
        IN  /\ Len(applied.uids) = Len(applied.rewards)
            /\ Len(applied.uids) = Len(a)
            /\ \A i \in 1 .. Len(a) :
                   /\ applied.uids[i] = task_result[a[i]].uid
                   /\ applied.rewards[i] =
                          (IF task_result[a[i]].verified = True
                           THEN ToFloat32(tier_factors[a[i]])
                           ELSE ToFloat32(CHALLENGE_FAILURE_REWARD))

\* C14: the prompt is never empty: it has 100 characters when challenge_size
\* is unset, zero or negative and challenge_size characters otherwise, all
\* from A-Z, a-z, 0-9
C14_PromptLength ==
    pc # "start" =>
        /\ prompt # <<>>
        /\ Len(prompt) = (IF challenge_size = Unset THEN 100
                          ELSE IF challenge_size[1] <= 0 THEN 100
                          ELSE challenge_size[1])
        /\ \A i \in 1 .. Len(prompt) : prompt[i] \in Elems(ascii_letters \o digits)

\* C15: when some prover is verified with 1.0 * tier_factor above the failure
\* constant, the report holds exactly the provers that are not NoResponse
\* and best_uid is a verified one
C15_BestIsVerified ==
    (/\ Returned
     /\ \E k \in Tasks : /\ task_result[k].verified = True
                         /\ 1 * tier_factors[k] > CHALLENGE_FAILURE_REWARD) =>
        /\ \E k \in Tasks : /\ task_result[k].verified = True
                            /\ task_result[k].uid = event.best_uid
        /\ event.uids = [i \in 1 .. Len(Answered(1)) |->
                             task_result[Answered(1)[i]].uid]

\* the steps challenge_data can take from one phase to the next
PhaseOrder ==
    {<<"start", "oracle">>, <<"oracle", "dispatch">>, <<"oracle", "aborted">>,
     <<"dispatch", "gather">>, <<"gather", "score">>, <<"gather", "aborted">>,
     <<"score", "returned">>}

\* C16: a round moves through prompt, ground truth, dispatch, scoring and
\* report in that order and never back; no task exists before the digest, no
\* reward before every task is done, and best_uid is set only once every
\* reward is in the report
C16_Phases ==
    /\ [](/\ ground_truth_hash # None => pc \notin {"start", "oracle"}
          /\ pc \in {"gather", "score", "returned"} => ground_truth_hash # None
          /\ Len(task_pc) > 0 => ground_truth_hash # None
          /\ tier_factors # <<>> =>
                 /\ pc \in {"score", "returned"}
                 /\ \A k \in Tasks : task_pc[k] = "done"
          /\ (pc # "start" /\ event.best_uid # -1) =>
                 /\ Returned
                 /\ Len(event.rewards) = Len(task_pc)
                 /\ Len(tier_factors) = Len(task_pc)
          /\ Returned => Len(event.rewards) = Len(task_pc))
    /\ [][pc' # pc => <<pc, pc'>> \in PhaseOrder]_vars

C16_Witness ==
    /\ Returned
    /\ Len(task_pc) = 2
    /\ event.best_uid # -1
    /\ prompt # <<>>

\* C17: no prover is sent more than one request or finishes twice, and in a
\* returned report every prover of the sample was sent exactly one request
\* and has exactly one outcome and one report entry
C17_OneRequestOneOutcome ==
    /\ \A k \in 1 .. Len(requests) :
           /\ Len(requests[k]) <= 1
           /\ task_pc[k] \in {"waiting", "done"} => Len(requests[k]) = 1
    /\ \A a, b \in 1 .. Len(arrival) : a # b => arrival[a] # arrival[b]
    /\ Returned =>
           \A k \in Tasks :
               /\ Len(requests[k]) = 1
               /\ requests[k][1].axon = task_result[k].uid
               /\ Cardinality({a \in 1 .. Len(arrival) : arrival[a] = k}) = 1
               /\ Cardinality({i \in 1 .. Len(event.uids) :
                                   event.uids[i] = task_result[k].uid}) = 1

C17_Witness ==
    /\ Returned
    /\ Len(task_pc) = 2
    /\ task_result[1].response.status_code = 408
    /\ task_result[2].response.status_code = 200
    /\ Len(requests[1]) = 1

\* C18: in a returned report every prover that answered (Verified or Failed)
\* has exactly one update_statistics call under its hotkey, of task type
\* "challenge", with success true exactly when its digest matched
C18_StatsOncePerAnswer ==
    Returned =>
        \A k \in Tasks :
            task_result[k].response.status_code = 200 =>
                LET calls == {c \in 1 .. Len(stats) :
                                  stats[c].ss58_address = hotkeys(task_result[k].uid)}
                IN  /\ Cardinality(calls) = 1
                    /\ \A c \in calls :
                           /\ stats[c].task_type = "challenge"
                           /\ (stats[c].success = True) <=>
                                  (hashing_function(task_result[k].response.completion)
                                       = ground_truth_hash)

C18_Witness ==
    /\ Returned
    /\ Len(task_pc) = 2
    /\ task_result[1].response.status_code = 200
    /\ task_result[2].response.status_code = 200
    /\ stats[1].success = False
    /\ stats[2].success = True

\* C19: every update_statistics call of a round carries the block height of
\* the round's report
C19_OneBlock ==
    pc # "start" =>
        \A c \in 1 .. Len(stats) : stats[c].current_block = event.block

\* C20: in a returned report best_uid is -1 with an empty best_hotkey exactly
\* when rewards is empty, and otherwise a uid of the report with best_hotkey
\* the metagraph hotkey of that uid
C20_BestConsistent ==
    Returned =>
        IF event.rewards = <<>>
        THEN event.best_uid = -1 /\ event.best_hotkey = <<>>
        ELSE /\ event.best_uid # -1
             /\ event.best_uid \in Elems(event.uids)
             /\ event.best_hotkey = hotkeys(event.best_uid)

C20_Witness ==
    /\ Returned
    /\ Len(event.uids) = 2
    /\ event.best_uid = event.uids[2]
    /\ event.best_hotkey = hotkeys(event.uids[2])

====
